---- MODULE Spec2Model ----
(***************************************************************************)
(* Open Protocol viewer (src/rs/src/bin/openprotocolviewer/main.rs): the   *)
(* session driven by three threads joined by one mpsc channel.             *)
(*   main          sends the JOIN, waits for ENTER, enqueues a Close,      *)
(*                 joins the two loops;                                    *)
(*   receive loop  takes frames from the transport, runs process_message   *)
(*                 on text frames and enqueues the reply;                  *)
(*   send loop     takes messages from the channel and writes them to the  *)
(*                 transport.                                              *)
(* Controller (src/rs/src/controller.rs): check() and the JSON written for *)
(* a controller, each applied to controllers drawn from a bounded set      *)
(* (ControllerSpec).                                                       *)
(* Option<T> is modelled as a sequence of length 0 (None) or 1 (Some).     *)
(***************************************************************************)
EXTENDS Integers, Sequences, FiniteSets, TLC

\* Every field name of the records below. TLC keeps the fields of a record in
\* the order in which it first met their names; naming them here, in the order
\* the records list them, makes every record below sorted as written.
FieldNames ==
    [ kind |-> 1, json |-> 2, variant |-> 3, type |-> 4,
      controller_id |-> 5, display_name |-> 6, controller_type |-> 7,
      version |-> 8, model |-> 9, address |-> 10, geo_location |-> 11,
      geo_latitude |-> 12, geo_longitude |-> 13, op_mode |-> 14,
      job_mode |-> 15, last_cycle_data |-> 16, variables |-> 17,
      last_connection_time |-> 18, operator |-> 19, controllerId |-> 20,
      operator_id |-> 21, operator_name |-> 22, operatorId |-> 23,
      action_id |-> 24, actionId |-> 25, name |-> 26, password |-> 27,
      filter |-> 28, level |-> 29, result |-> 30, job_card_id |-> 31,
      jobCardId |-> 32, mold_id |-> 33, moldId |-> 34, progress |-> 35,
      total |-> 36, data |-> 37, payload |-> 38, sequence |-> 39,
      status_code |-> 40, reason |-> 41, raw |-> 42, frame |-> 43,
      reply |-> 44, sent |-> 45, joined |-> 46, field |-> 47 ]

VARIABLES
    mainPc,     \* main thread: "join" | "wait" | "stopped" | "exited" | "panicked"
    rxPc,       \* receive loop: "run" | "closed" | "failed" | "panicked"
    txPc,       \* send loop: "sleep" | "run" | "done" | "panicked"
    queue,      \* messages in the channel (tx/txx -> rx), oldest first
    enqueued,   \* history: every message a send() on the channel accepted
    written,    \* history: every message the transport accepted from the send loop
    seq,        \* next sequence number this side assigns to a message it creates
    received,   \* number of inbound frames the receive loop has taken
    last,       \* the receive loop's latest iteration: frame, reply, what it enqueued
    controller, \* a Controller value (src/rs/src/controller.rs)
    checked,    \* Some(what controller.check() returned), None before the call
    serialized  \* Some(the JSON written for controller), None before the call

sessionVars == <<mainPc, rxPc, txPc, queue, enqueued, written, seq, received, last>>
controllerVars == <<controller, checked, serialized>>
vars == <<sessionVars, controllerVars>>

(* ------------------------------ bounds --------------------------------- *)

\* Number of inbound frames the transport delivers in one run.
MaxInbound == 2

(* ------------------------------ Option --------------------------------- *)

None == <<>>
Some(x) == <<x>>
IsSome(o) == Len(o) = 1
Unwrap(o) == o[1]

(* ================= Controller (src/rs/src/controller.rs) ================ *)

(* ------------------------------ strings --------------------------------- *)

\* An address is a sequence of characters, each written as a string; a
\* character outside ASCII is written as its code point ("U+0663").
Digits == <<"0", "1", "2", "3", "4", "5", "6", "7", "8", "9">>

\* char::to_digit(10): the ASCII decimal digits.
AsciiDigit == {Digits[i] : i \in DOMAIN Digits}

ToDigit(c) == (CHOOSE i \in DOMAIN Digits : Digits[i] = c) - 1

\* \d of the regex crate: every Unicode decimal digit (here the ASCII ones
\* and ARABIC-INDIC DIGIT THREE).
RegexDigit == AsciiDigit \cup {"U+0663"}

\* \w of the regex crate: letters, digits and the underscore (the letters
\* are the ones the addresses below are written with).
RegexWord ==
    RegexDigit \cup
        {"_", "t", "y", "T", "Y", "C", "O", "M", "c", "o", "m", "A", "B",
         "S", "a", "x", "U+00E9"}

(* ------------------------------ regex ----------------------------------- *)

\* A pattern is a sequence of items <<class, least, most>>: between least
\* and most characters of the class; most = -1 stands for no upper limit.
Rep(class, least, most) == <<class, least, most>>
Lit(c) == <<{c}, 1, 1>>
Plus(class) == <<class, 1, -1>>

Min(a, b) == IF a <= b THEN a ELSE b

\* Whether items k.. of the pattern match s from position i to its end.
RECURSIVE MatchesFrom(_, _, _, _)
MatchesFrom(re, k, s, i) ==
    IF k > Len(re)
    THEN i = Len(s) + 1
    ELSE LET rest == Len(s) - i + 1
             most == IF re[k][3] < 0 THEN rest ELSE Min(re[k][3], rest)
         IN  \E n \in re[k][2]..most :
                /\ \A j \in i..(i + n - 1) : s[j] \in re[k][1]
                /\ MatchesFrom(re, k + 1, s, i + n)

\* Regex::is_match of a pattern anchored with ^ and $.
IsMatch(re, s) == MatchesFrom(re, 1, s, 1)

\* ^\d{1,3}\.\d{1,3}\.\d{1,3}\.\d{1,3}:\d{1,5}$ (133)
IP_REGEX ==
    << Rep(RegexDigit, 1, 3), Lit("."), Rep(RegexDigit, 1, 3), Lit("."),
       Rep(RegexDigit, 1, 3), Lit("."), Rep(RegexDigit, 1, 3), Lit(":"),
       Rep(RegexDigit, 1, 5) >>

\* ^tty\w+$ (134)
TTY_REGEX == << Lit("t"), Lit("t"), Lit("y"), Plus(RegexWord) >>

\* ^COM(\d+)$ (135)
COM_REGEX == << Lit("C"), Lit("O"), Lit("M"), Plus(RegexDigit) >>

(* --------------------- Ipv4Addr and u16 from_str ------------------------ *)

\* The parser's read_number(10, 3, 0x100) at position i: decimal digits read
\* while there are any. The answer is Some(<<value, next position>>), or
\* None without a digit, at a fourth digit or at a value of 256.
RECURSIVE ReadNumber(_, _, _, _)
ReadNumber(s, i, count, value) ==
    IF i <= Len(s) /\ s[i] \in AsciiDigit
    THEN LET r == value * 10 + ToDigit(s[i])
         IN  IF count + 1 > 3 \/ r >= 256
             THEN None
             ELSE ReadNumber(s, i + 1, count + 1, r)
    ELSE IF count = 0 THEN None ELSE Some(<<value, i>>)

\* Four numbers with a dot before each but the first, then the end of input.
RECURSIVE ReadIpv4Addr(_, _, _)
ReadIpv4Addr(s, i, octets) ==
    IF Len(octets) = 4
    THEN IF i = Len(s) + 1 THEN Some(octets) ELSE None
    ELSE LET start == IF octets = <<>> THEN i ELSE i + 1
             dot == octets = <<>> \/ (i <= Len(s) /\ s[i] = ".")
             n == ReadNumber(s, start, 0, 0)
         IN  IF dot /\ IsSome(n)
             THEN ReadIpv4Addr(s, Unwrap(n)[2], Append(octets, Unwrap(n)[1]))
             ELSE None

\* A parser that refuses an octet written with a leading zero.
Ipv4AddrNoLeadingZero(s) ==
    IF \E i \in 1..(Len(s) - 1) :
            /\ s[i] = "0" /\ s[i + 1] \in AsciiDigit
            /\ (i = 1 \/ s[i - 1] = ".")
    THEN None
    ELSE ReadIpv4Addr(s, 1, <<>>)

\* Ipv4Addr::from_str (152): Some(the four octets) or None for an error.
Ipv4AddrFromStr(s) == ReadIpv4Addr(s, 1, <<>>)

\* u16::from_str (164): an optional "+", then one or more ASCII digits whose
\* value fits sixteen bits; None for an error.
RECURSIVE ReadU16(_, _, _)
ReadU16(s, i, value) ==
    IF i > Len(s) THEN Some(value)
    ELSE IF s[i] \notin AsciiDigit THEN None
    ELSE LET r == value * 10 + ToDigit(s[i])
         IN  IF r > 65535 THEN None ELSE ReadU16(s, i + 1, r)

U16FromStr(s) ==
    LET digits == IF s # <<>> /\ Head(s) = "+" THEN Tail(s) ELSE s
    IN  IF digits = <<>> THEN None ELSE ReadU16(digits, 1, 0)

(* ------------------------- field validators ----------------------------- *)

\* Result<()>: Ok, or Err of an error.
Ok == <<>>
Err(e) == <<e>>
IsErr(r) == r # Ok

\* OpenProtocolError::InvalidField, by the field it names (the value and the
\* description of the error are left out).
InvalidField(field) == [field |-> field]

\* check_string_empty(s, field): an empty string is an invalid field.
CheckStringEmpty(s, field) ==
    IF s = <<>> THEN Err(InvalidField(field)) ELSE Ok

\* check_optional_str_empty(&opt, field): a string that is present is not
\* empty.
CheckOptionalStrEmpty(opt, field) ==
    IF IsSome(opt) /\ Unwrap(opt) = <<>> THEN Err(InvalidField(field)) ELSE Ok

\* An f64 is <<class, value>>: a finite number, NaN or an infinity.
Finite(x) == <<"finite", x>>
NaN == <<"NaN", 0>>
Infinity == <<"inf", 0>>

\* check_f64(x, field): NaN and the infinities are invalid.
CheckF64(x, field) ==
    IF x[1] = "finite" THEN Ok ELSE Err(InvalidField(field))

\* r?; rest: the first error ends the function.
Try(r, rest) == IF IsErr(r) THEN r ELSE rest

\* GeoLocation::check (36-42)
GeoLocationCheck(geo) ==
    Try(CheckF64(geo.geo_latitude, "geo_latitude"),
        CheckF64(geo.geo_longitude, "geo_longitude"))

(* --------------------------- Controller::check -------------------------- *)

\* str::find(':'): the position of the first colon.
FindColon(s) == CHOOSE i \in 1..Len(s) :
                    s[i] = ":" /\ \A j \in 1..(i - 1) : s[j] # ":"

\* The address of a controller (132-183).
CheckAddress(addr) ==
    IF ~IsMatch(IP_REGEX, addr)
    THEN IF ~IsMatch(TTY_REGEX, addr) /\ ~IsMatch(COM_REGEX, addr)
         THEN Err(InvalidField("ip"))
         ELSE Ok
    ELSE LET at == FindColon(addr)
             address == SubSeq(addr, 1, at - 1)
             port == SubSeq(addr, at + 1, Len(addr))
             n == U16FromStr(port)
         IN  IF ~IsSome(Ipv4AddrFromStr(address))
             THEN Err(InvalidField("ip[address]"))
             ELSE IF IsSome(n)
                  THEN IF Unwrap(n) <= 0
                       THEN Err(InvalidField("ip[port]"))
                       ELSE Ok
                  ELSE Err(InvalidField("ip[port]"))

\* Controller::check (116-184)
Check(c) ==
    Try(CheckStringEmpty(c.controller_type, "controller_type"),
    Try(CheckStringEmpty(c.version, "version"),
    Try(CheckStringEmpty(c.model, "version"),
    Try(CheckOptionalStrEmpty(c.job_card_id, "job_card_id"),
    Try(CheckOptionalStrEmpty(c.mold_id, "mold_id"),
    Try(IF IsSome(c.geo_location)
        THEN GeoLocationCheck(Unwrap(c.geo_location))
        ELSE Ok,
    Try(CheckStringEmpty(c.address, "address"),
        CheckAddress(c.address))))))))

(* ----------------------------- Controller ------------------------------- *)

Unknown == <<"U", "n", "k", "n", "o", "w", "n">>

\* Controller::default() (187-207)
Default ==
    [controller_id |-> 1,
     display_name |-> None,
     controller_type |-> Unknown,
     version |-> Unknown,
     model |-> Unknown,
     address |-> <<"0", ".", "0", ".", "0", ".", "0", ":", "1">>,
     geo_location |-> None,
     op_mode |-> "Unknown",
     job_mode |-> "Unknown",
     last_cycle_data |-> None,
     variables |-> None,
     last_connection_time |-> None,
     operator |-> None,
     job_card_id |-> None,
     mold_id |-> None]

(* ------------------- serde_json::to_string(&Controller) ------------------ *)

\* A JSON object is the sequence of its entries <<key, value>>, in the order
\* they are written; a value is <<"null">>, <<"number", n>>, <<"string", s>>
\* or <<"object", entries>>.
JsonNull == <<"null">>
JsonNumber(n) == <<"number", n>>
JsonString(str) == <<"string", str>>
JsonObject(entries) == <<"object", entries>>

\* An f64: serde_json writes null for NaN and the infinities.
SerializeF64(x) == IF x[1] = "finite" THEN JsonNumber(x[2]) ELSE JsonNull

\* An Option<&str> without an attribute: None is written as null.
SerializeOptionStr(opt) ==
    IF IsSome(opt) THEN JsonString(Unwrap(opt)) ELSE JsonNull

\* #[serde(skip_serializing_if = "Option::is_none")]: no entry for None.
SkipIfNone(opt, entries) == IF IsSome(opt) THEN entries ELSE <<>>

\* A HashMap<&str, f64>, here the sequence of its <<key, f64>> pairs.
SerializeMap(map) ==
    JsonObject([i \in 1..Len(map) |-> <<map[i][1], SerializeF64(map[i][2])>>])

\* Operator (16-23): both fields are written.
SerializeOperator(op) ==
    << <<"operatorId", JsonNumber(op.operator_id)>>,
       <<"operatorName", SerializeOptionStr(op.operator_name)>> >>

\* GeoLocation (27-34)
SerializeGeoLocation(geo) ==
    << <<"geoLatitude", SerializeF64(geo.geo_latitude)>>,
       <<"geoLongitude", SerializeF64(geo.geo_longitude)>> >>

\* Controller (45-113): camelCase keys, "IP" for the address, the
\* geo-location and the operator flattened into the object.
ToJson(c) ==
    << <<"controllerId", JsonNumber(c.controller_id)>> >>
    \o SkipIfNone(c.display_name,
        << <<"displayName", SerializeOptionStr(c.display_name)>> >>)
    \o << <<"controllerType", JsonString(c.controller_type)>>,
          <<"version", JsonString(c.version)>>,
          <<"model", JsonString(c.model)>>,
          <<"IP", JsonString(c.address)>> >>
    \o SkipIfNone(c.geo_location,
        IF IsSome(c.geo_location)
        THEN SerializeGeoLocation(Unwrap(c.geo_location)) ELSE <<>>)
    \o << <<"opMode", JsonString(c.op_mode)>>,
          <<"jobMode", JsonString(c.job_mode)>> >>
    \o SkipIfNone(c.last_cycle_data,
        IF IsSome(c.last_cycle_data)
        THEN << <<"lastCycleData", SerializeMap(Unwrap(c.last_cycle_data))>> >>
        ELSE <<>>)
    \o SkipIfNone(c.variables,
        IF IsSome(c.variables)
        THEN << <<"variables", SerializeMap(Unwrap(c.variables))>> >>
        ELSE <<>>)
    \o SkipIfNone(c.last_connection_time,
        << <<"lastConnectionTime",
             SerializeOptionStr(c.last_connection_time)>> >>)
    \o SkipIfNone(c.operator,
        IF IsSome(c.operator)
        THEN SerializeOperator(Unwrap(c.operator)) ELSE <<>>)
    \o SkipIfNone(c.job_card_id,
        << <<"jobCardId", SerializeOptionStr(c.job_card_id)>> >>)
    \o SkipIfNone(c.mold_id,
        << <<"moldId", SerializeOptionStr(c.mold_id)>> >>)

(* ------------------------ addresses to be checked ----------------------- *)

\* The longest octet text and port text written out below.
MaxOctetWidth == 4
MaxPortWidth == 6

RECURSIVE NumDigits(_)
NumDigits(n) == IF n < 10 THEN 1 ELSE 1 + NumDigits(n \div 10)

\* The decimal numeral of n, padded with zeros to the given width.
RECURSIVE Dec(_, _)
Dec(n, width) ==
    IF width = 0 THEN <<>>
    ELSE Append(Dec(n \div 10, width - 1), Digits[(n % 10) + 1])

\* The numerals of the values, at every width from their own to the largest.
Numerals(values, largest) ==
    UNION {{Dec(v, w) : w \in NumDigits(v)..largest} : v \in values}

\* Texts put where an octet stands.
OctetTexts ==
    Numerals({0, 1, 2, 25, 255, 256, 999}, MaxOctetWidth)
        \cup {<<>>, <<"U+0663">>, <<"a">>}

\* Texts put where the port stands.
PortTexts ==
    Numerals({0, 1, 5, 80, 65535, 65536, 99999, 100000}, MaxPortWidth)
        \cup {<<>>, <<"+", "5">>, <<"U+0663">>, <<"8", "0", "\n">>}

IpText(a, b, c, d, port) ==
    a \o <<".">> \o b \o <<".">> \o c \o <<".">> \o d \o <<":">> \o port

\* Addresses written as four octets and a port.
IpAddresses ==
    {IpText(a, <<"0", "2">>, <<"0", "0", "3">>, <<"0", "0", "4">>, port) :
        a \in OctetTexts, port \in PortTexts}
    \cup {IpText(<<"1">>, b, c, d, port) :
            b \in {<<"2">>, <<"0", "2">>, <<"3", "0", "0">>},
            c \in {<<"3">>, <<"0", "0", "3">>, <<"0", "0", "0", "3">>},
            d \in {<<"4">>, <<"2", "5", "5">>, <<"2", "6", "0">>},
            port \in {<<"0">>, <<"0", "5">>, <<"8", "0">>,
                      <<"6", "5", "5", "3", "6">>}}

\* Addresses written as a prefix and a device name or number.
SerialAddresses ==
    {prefix \o suffix :
        prefix \in {<<"t", "t", "y">>, <<"C", "O", "M">>, <<"T", "T", "Y">>,
                    <<"c", "o", "m">>, <<"x", "t", "t", "y">>, <<>>},
        suffix \in {<<>>, <<"1">>, <<"1", "2", "3">>, <<"A", "B", "C">>,
                    <<"S", "0">>, <<"A", "_", "1">>, <<"U+00E9">>,
                    <<"U+0663">>, <<"-">>, <<"1", " ">>, <<"1", "\n">>,
                    <<"1", ":", "5">>}}

\* Addresses that are neither.
OtherAddresses ==
    { <<"1", ".", "2", ".", "3", ".", "4">>,
      <<"1", ".", "2", ".", "3", ":", "5">>,
      <<"1", ".", "2", ".", "3", ".", "4", ".", "5", ":", "6">>,
      <<" ", "1", ".", "2", ".", "3", ".", "4", ":", "5">>,
      <<"1", ".", "2", ".", "3", ".", "4", ":", "5", "\n">>,
      <<"1", ":", "2", ".", "3", ".", "4", ".", "5">>,
      <<"C", "O", "M", "1", ".", "2", ".", "3", ".", "4", ":", "5">> }

Addresses == IpAddresses \cup SerialAddresses \cup OtherAddresses

\* The default controller at each of the addresses.
AddressControllers == {[Default EXCEPT !.address = a] : a \in Addresses}

(* ----------------------- controllers to be written --------------------- *)

John == <<"J", "o", "h", "n">>

\* The default controller with each optional field absent or present; an
\* operator with and without a name, coordinates finite or not.
OptionalControllers ==
    {[Default EXCEPT
        !.display_name = display_name,
        !.geo_location = geo_location,
        !.last_cycle_data = last_cycle_data,
        !.variables = variables,
        !.last_connection_time = last_connection_time,
        !.operator = operator,
        !.job_card_id = job_card_id,
        !.mold_id = mold_id] :
        display_name \in {None, Some(<<"M", "1">>)},
        geo_location \in
            {None,
             Some([geo_latitude |-> Finite(23), geo_longitude |-> Finite(114)]),
             Some([geo_latitude |-> NaN, geo_longitude |-> Finite(114)])},
        last_cycle_data \in {None, Some(<< <<"Z_QDCYCTIM", Finite(15)>> >>)},
        variables \in {None, Some(<<>>)},
        last_connection_time \in {None, Some("2019-02-26T02:03:04+08:00")},
        operator \in
            {None,
             Some([operator_id |-> 123, operator_name |-> Some(John)]),
             Some([operator_id |-> 123, operator_name |-> None])},
        job_card_id \in {None, Some(<<"J", "1">>)},
        mold_id \in {None, Some(<<"M", "2">>)}}

(* ------------------------ controllers to be checked --------------------- *)

\* The default controller with each field check() looks at valid or not.
FieldControllers ==
    {[Default EXCEPT
        !.controller_type = controller_type,
        !.version = version,
        !.model = model,
        !.address = address,
        !.geo_location = geo_location,
        !.job_card_id = job_card_id,
        !.mold_id = mold_id] :
        controller_type \in {<<>>, Unknown},
        version \in {<<>>, Unknown},
        model \in {<<>>, Unknown},
        address \in {<<>>, Default.address, <<"C", "O", "M">>},
        geo_location \in
            {None,
             Some([geo_latitude |-> Finite(23), geo_longitude |-> Finite(114)]),
             Some([geo_latitude |-> NaN, geo_longitude |-> Finite(114)]),
             Some([geo_latitude |-> Finite(23), geo_longitude |-> Infinity])},
        job_card_id \in {None, Some(<<>>), Some(<<"J", "1">>)},
        mold_id \in {None, Some(<<>>), Some(<<"M", "2">>)}}

\* The controllers the operations are applied to.
Controllers ==
    AddressControllers \cup OptionalControllers \cup FieldControllers

(* --------------------- constants of main (180-198) ---------------------- *)

\* The eleven built-in passwords, in the order of the array literal.
Passwords ==
    << "000000", "111111", "222222", "333333", "444444", "555555",
       "666666", "777777", "888888", "999999", "123456" >>

\* enumerate(): the zero-based position of a password in the array.
IndexOf(p) == (CHOOSE i \in 1..Len(Passwords) : Passwords[i] = p) - 1

\* "MISUser{index}"
UserNames ==
    << "MISUser0", "MISUser1", "MISUser2", "MISUser3", "MISUser4", "MISUser5",
       "MISUser6", "MISUser7", "MISUser8", "MISUser9", "MISUser10" >>

\* constants.users: password -> (access level, name)
Users ==
    [p \in {Passwords[i] : i \in 1..Len(Passwords)} |->
        <<IndexOf(p), UserNames[IndexOf(p) + 1]>>]

\* constants.users.get(password)
UsersGet(p) == IF p \in DOMAIN Users THEN Some(Users[p]) ELSE None

JobCardNew(id, mold, progress, total) ==
    [job_card_id |-> id, mold_id |-> mold, progress |-> progress, total |-> total]

\* constants.jobs
Jobs ==
    << JobCardNew("JOB_CARD_1", "ABC-123", 0, 8000),
       JobCardNew("JOB_CARD_2", "M002", 2000, 10000),
       JobCardNew("JOB_CARD_3", "MOULD_003", 888, 3333),
       JobCardNew("JOB_CARD_4", "MOULD_004", 123, 45678) >>

\* The password typed at the prompt (non-empty: main returns otherwise).
JoinPassword == "secret"

(* ------------------- messages and codec (library) ----------------------- *)

\* Message::new_alive(): an Alive carrying a sequence number of this side.
NewAlive(s) == [variant |-> "Alive", sequence |-> s]

\* Message::new_join(password, filters)
NewJoin(password, filters, s) ==
    [variant |-> "Join", password |-> password, filter |-> filters, sequence |-> s]

\* RequestControllersList { controller_id, options: Default::default() }
RequestControllersList(controller_id, s) ==
    [variant |-> "RequestControllersList", controller_id |-> controller_id,
     sequence |-> s]

\* OperatorInfo { controller_id, operator_id, name, password, level, options }
OperatorInfo(controller_id, operator_id, name, password, level, s) ==
    [variant |-> "OperatorInfo", controller_id |-> controller_id,
     operator_id |-> operator_id, name |-> name, password |-> password,
     level |-> level, sequence |-> s]

\* JobCardsList { controller_id, data, options }
JobCardsList(controller_id, data, s) ==
    [variant |-> "JobCardsList", controller_id |-> controller_id, data |-> data,
     sequence |-> s]

\* The JSON object a text frame carries is a record keyed by the wire names
\* (lower camel case); a text that is no JSON object is [raw |-> text].
HasKeys(json, keys) == DOMAIN json = keys \cup {"type", "sequence"}

\* Message::parse_from_json_str: the decoded message, or None for an Err.
\* Ids are positive integers and strings are non-empty (check()).
ParseFromJsonStr(json) ==
    IF ~({"type", "sequence"} \subseteq DOMAIN json) THEN None
    ELSE IF json.type = "Alive" /\ HasKeys(json, {})
        THEN Some([variant |-> "Alive", sequence |-> json.sequence])
    ELSE IF json.type = "JoinResponse" /\ HasKeys(json, {"result"})
        THEN Some([variant |-> "JoinResponse", result |-> json.result,
                   sequence |-> json.sequence])
    ELSE IF json.type = "LoginOperator" /\ HasKeys(json, {"controllerId", "password"})
        THEN IF json.controllerId >= 1 /\ json.password # ""
             THEN Some([variant |-> "LoginOperator",
                        controller_id |-> json.controllerId,
                        password |-> json.password, sequence |-> json.sequence])
             ELSE None
    ELSE IF json.type = "RequestJobCardsList" /\ HasKeys(json, {"controllerId"})
        THEN IF json.controllerId >= 1
             THEN Some([variant |-> "RequestJobCardsList",
                        controller_id |-> json.controllerId,
                        sequence |-> json.sequence])
             ELSE None
    ELSE IF json.type = "ControllerAction" /\ HasKeys(json, {"controllerId", "actionId"})
        THEN IF json.controllerId >= 1
             THEN Some([variant |-> "ControllerAction",
                        controller_id |-> json.controllerId,
                        action_id |-> json.actionId, sequence |-> json.sequence])
             ELSE None
    ELSE None

\* Message::to_json_str: the JSON object of an outbound message; absent
\* fields are omitted; None for an Err (a string field that must not be empty).
ToJsonStr(m) ==
    IF m.variant = "Alive"
        THEN Some([type |-> "Alive", sequence |-> m.sequence])
    ELSE IF m.variant = "Join"
        THEN IF m.password = "" THEN None
             ELSE Some([type |-> "Join", password |-> m.password,
                        filter |-> m.filter, sequence |-> m.sequence])
    ELSE IF m.variant = "RequestControllersList"
        THEN IF IsSome(m.controller_id)
             THEN Some([type |-> "RequestControllersList",
                        controllerId |-> Unwrap(m.controller_id),
                        sequence |-> m.sequence])
             ELSE Some([type |-> "RequestControllersList", sequence |-> m.sequence])
    ELSE IF m.variant = "OperatorInfo"
        THEN IF m.name = "" \/ m.password = "" THEN None
             ELSE IF IsSome(m.operator_id)
             THEN Some([type |-> "OperatorInfo", controllerId |-> m.controller_id,
                        operatorId |-> Unwrap(m.operator_id), name |-> m.name,
                        password |-> m.password, level |-> m.level,
                        sequence |-> m.sequence])
             ELSE Some([type |-> "OperatorInfo", controllerId |-> m.controller_id,
                        name |-> m.name, password |-> m.password,
                        level |-> m.level, sequence |-> m.sequence])
    ELSE IF m.variant = "JobCardsList"
        THEN Some([type |-> "JobCardsList", controllerId |-> m.controller_id,
                   data |-> [k \in DOMAIN m.data |->
                               [jobCardId |-> m.data[k].job_card_id,
                                moldId |-> m.data[k].mold_id,
                                progress |-> m.data[k].progress,
                                total |-> m.data[k].total]],
                   sequence |-> m.sequence])
    ELSE None

(* --------------------------- process_message ---------------------------- *)

\* u8 addition, then NonZeroU32::new(u32::from(..)): None for zero.
NonZeroU32New(n) == IF n = 0 THEN None ELSE Some(n)
LevelPlusOne(level) == (level + 1) % 256

\* OP_Message::Alive { .. } => Some(OP_Message::new_alive())
OnAlive(s) == Some(NewAlive(s))

\* OP_Message::JoinResponse { result, .. }
OnJoinResponse(result, s) ==
    IF result < 100
    THEN None
    ELSE Some(RequestControllersList(None, s))

\* OP_Message::LoginOperator { controller_id, password, .. }
OnLoginOperator(controller_id, password, s) ==
    LET user == UsersGet(password) IN
    IF IsSome(user)
    THEN LET level == Unwrap(user)[1]
             name == Unwrap(user)[2]
         IN Some(OperatorInfo(controller_id, NonZeroU32New(LevelPlusOne(level)),
                              name, password, level, s))
    ELSE Some(OperatorInfo(controller_id, None, "Not Allowed", password, 0, s))

\* OP_Message::RequestJobCardsList { controller_id, .. }:
\* constants.jobs.iter().map(|jc| (jc.job_card_id, jc.clone())).collect()
\* into a map; a later card with the same id replaces an earlier one.
JobsById ==
    [id \in {Jobs[i].job_card_id : i \in 1..Len(Jobs)} |->
        Jobs[CHOOSE i \in 1..Len(Jobs) :
                /\ Jobs[i].job_card_id = id
                /\ \A j \in 1..Len(Jobs) : Jobs[j].job_card_id = id => j <= i]]

OnRequestJobCardsList(controller_id, s) ==
    Some(JobCardsList(controller_id, JobsById, s))

\* A process_message that answers a text it cannot parse with an Alive.
ProcessMessageAnswersBadText(json, s) ==
    LET parsed == ParseFromJsonStr(json) IN
    IF ~IsSome(parsed) THEN Some(NewAlive(s))
    ELSE LET message == Unwrap(parsed) IN
         IF message.variant = "Alive" THEN OnAlive(s)
         ELSE IF message.variant = "JoinResponse"
             THEN OnJoinResponse(message.result, s)
         ELSE IF message.variant = "LoginOperator"
             THEN OnLoginOperator(message.controller_id, message.password, s)
         ELSE IF message.variant = "RequestJobCardsList"
             THEN OnRequestJobCardsList(message.controller_id, s)
         ELSE None

\* A process_message that answers every message it has no branch for.
ProcessMessageAnswersTheRest(json, s) ==
    LET parsed == ParseFromJsonStr(json) IN
    IF ~IsSome(parsed) THEN None
    ELSE LET message == Unwrap(parsed) IN
         IF message.variant = "Alive" THEN OnAlive(s)
         ELSE IF message.variant = "JoinResponse"
             THEN OnJoinResponse(message.result, s)
         ELSE IF message.variant = "LoginOperator"
             THEN OnLoginOperator(message.controller_id, message.password, s)
         ELSE IF message.variant = "RequestJobCardsList"
             THEN OnRequestJobCardsList(message.controller_id, s)
         ELSE Some(NewAlive(s))

\* process_message(json, constants): the reply, if any.
ProcessMessage(json, s) ==
    LET parsed == ParseFromJsonStr(json) IN
    IF ~IsSome(parsed) THEN None
    ELSE LET message == Unwrap(parsed) IN
         IF message.variant = "Alive" THEN OnAlive(s)
         ELSE IF message.variant = "JoinResponse"
             THEN OnJoinResponse(message.result, s)
         ELSE IF message.variant = "LoginOperator"
             THEN OnLoginOperator(message.controller_id, message.password, s)
         ELSE IF message.variant = "RequestJobCardsList"
             THEN OnRequestJobCardsList(message.controller_id, s)
         ELSE None

(* ------------------------- transport frames ----------------------------- *)

\* websocket::OwnedMessage
Text(json) == [kind |-> "Text", json |-> json]
Close(data) == [kind |-> "Close", data |-> data]
Ping(data) == [kind |-> "Ping", payload |-> data]
Pong(data) == [kind |-> "Pong", payload |-> data]
Binary(data) == [kind |-> "Binary", payload |-> data]
CloseData(status_code, reason) == [status_code |-> status_code, reason |-> reason]

\* Close(Some(CloseData::new(1, "Error receiving message: ..")))
ReceiveErrorClose == Close(Some(CloseData(1, "Error receiving message")))
\* Close(Some(CloseData::new(0, "Program termination.")))
TerminationClose == Close(Some(CloseData(0, "Program termination.")))
\* Message::close()
PlainClose == Close(None)

\* The JOIN text main puts on the channel.
JoinMessage(s) == NewJoin(JoinPassword, {"All", "JobCards", "Operators"}, s)

\* JSON texts the server may send: well-formed messages of every kind the
\* viewer reacts to, one it ignores, and texts that do not parse.
WellFormedTexts ==
    {[type |-> "Alive", sequence |-> 7]}
    \cup {[type |-> "JoinResponse", result |-> r, sequence |-> 1] :
            r \in {42, 99, 100, 150}}
    \cup {[type |-> "LoginOperator", controllerId |-> c, password |-> p,
           sequence |-> 2] :
            c \in {1, 2}, p \in {"000000", "123456", "letmein"}}
    \cup {[type |-> "RequestJobCardsList", controllerId |-> c, sequence |-> 3] :
            c \in {1, 2}}
    \cup {[type |-> "ControllerAction", controllerId |-> 1, actionId |-> 9,
           sequence |-> 4]}

MalformedTexts ==
    { [raw |-> "not json"],
      [type |-> "NoSuchMessage", sequence |-> 5],
      [type |-> "LoginOperator", controllerId |-> 1, password |-> "",
       sequence |-> 2],
      [type |-> "RequestJobCardsList", controllerId |-> 0, sequence |-> 3],
      [type |-> "JoinResponse", sequence |-> 1] }

InboundTexts == WellFormedTexts \cup MalformedTexts

InboundCloses == {Close(None), Close(Some(CloseData(1000, "bye")))}

(* ------------------------------ channel --------------------------------- *)

\* The Receiver half lives in the send loop's closure: it is dropped when
\* that closure returns or unwinds.
ReceiverAlive == txPc \in {"sleep", "run"}

\* A panic of the main thread, or its return, ends the process.
ProcessAlive == mainPc \notin {"exited", "panicked"}

\* A channel that hands out the newest message first.
ChannelRecvNewest(q) == q[Len(q)]

\* rx.recv(): the oldest message in the channel.
ChannelRecv(q) == Head(q)

\* The iteration record of the receive loop.
Iteration(frame, reply, sent) ==
    [frame |-> frame, reply |-> reply, sent |-> sent,
     joined \* whether the JOIN had been put on the channel before
        |-> \E i \in 1..Len(enqueued) :
                enqueued[i].kind = "Text" /\ enqueued[i].json.type = "Join"]

NoFrame == [kind |-> "None"]

Init ==
    /\ mainPc = "join"
    /\ rxPc = "run"
    /\ txPc = "sleep"
    /\ queue = <<>>
    /\ enqueued = <<>>
    /\ written = <<>>
    /\ seq = 1
    /\ received = 0
    /\ last = [frame |-> NoFrame, reply |-> None, sent |-> <<>>, joined |-> FALSE]
    /\ controller = Default
    /\ checked = None
    /\ serialized = None

(* ------------------------------ main ------------------------------------ *)

\* Send a JOIN message (301-312): a failed send is only reported.
SendJoin ==
    /\ mainPc = "join"
    /\ LET m == ToJsonStr(JoinMessage(seq)) IN
       IF IsSome(m) /\ ReceiverAlive
       THEN /\ queue' = Append(queue, Text(Unwrap(m)))
            /\ enqueued' = Append(enqueued, Text(Unwrap(m)))
       ELSE UNCHANGED <<queue, enqueued>>
    /\ seq' = seq + 1
    /\ mainPc' = "wait"
    /\ UNCHANGED <<rxPc, txPc, written, received, last>>
    /\ UNCHANGED controllerVars

\* ENTER was pressed (314-321): enqueue the Close, or panic on a closed channel.
Stop ==
    /\ mainPc = "wait"
    /\ IF ReceiverAlive
       THEN /\ queue' = Append(queue, TerminationClose)
            /\ enqueued' = Append(enqueued, TerminationClose)
            /\ mainPc' = "stopped"
       ELSE /\ mainPc' = "panicked"
            /\ UNCHANGED <<queue, enqueued>>
    /\ UNCHANGED <<rxPc, txPc, written, seq, received, last>>
    /\ UNCHANGED controllerVars

\* send_loop.join(); receive_loop.join(); return (323-330).
MainExit ==
    /\ mainPc = "stopped"
    /\ txPc \in {"done", "panicked"}
    /\ rxPc \in {"closed", "failed", "panicked"}
    /\ mainPc' = "exited"
    /\ UNCHANGED <<rxPc, txPc, queue, enqueued, written, seq, received, last>>
    /\ UNCHANGED controllerVars

(* --------------------------- receive loop ------------------------------- *)

RecvEnabled == ProcessAlive /\ rxPc = "run" /\ received < MaxInbound

\* txx.send(msg).expect("Cannot send to channel!") inside an iteration that
\* took `frame` and got `reply` from process_message; `next` is where the
\* loop goes when the send succeeds.
ChannelSend(frame, reply, msg, next) ==
    IF ReceiverAlive
    THEN /\ queue' = Append(queue, msg)
         /\ enqueued' = Append(enqueued, msg)
         /\ rxPc' = next
         /\ last' = Iteration(frame, reply, <<msg>>)
    ELSE /\ rxPc' = "panicked"
         /\ last' = Iteration(frame, reply, <<>>)
         /\ UNCHANGED <<queue, enqueued>>

\* Err(err) from incoming_messages() (224-229): enqueue a Close and return.
RecvError ==
    /\ RecvEnabled
    /\ received' = received + 1
    /\ ChannelSend([kind |-> "Error"], None, ReceiveErrorClose, "failed")
    /\ UNCHANGED <<mainPc, txPc, written, seq>>
    /\ UNCHANGED controllerVars

\* OwnedMessage::Close(data) (233-240): print and return.
RecvClose(frame) ==
    /\ RecvEnabled
    /\ received' = received + 1
    /\ rxPc' = "closed"
    /\ last' = Iteration(frame, None, <<>>)
    /\ UNCHANGED <<mainPc, txPc, queue, enqueued, written, seq>>
    /\ UNCHANGED controllerVars

\* OwnedMessage::Ping(data) (241-243): enqueue the Pong.
RecvPing(frame) ==
    /\ RecvEnabled
    /\ received' = received + 1
    /\ ChannelSend(frame, None, Pong(frame.payload), "run")
    /\ UNCHANGED <<mainPc, txPc, written, seq>>
    /\ UNCHANGED controllerVars

\* OwnedMessage::Text(json) (244-259): process, serialize, enqueue.
RecvText(frame) ==
    /\ RecvEnabled
    /\ received' = received + 1
    /\ LET reply == ProcessMessage(frame.json, seq)
           resp == IF IsSome(reply) THEN ToJsonStr(Unwrap(reply)) ELSE None
       IN /\ seq' = IF IsSome(reply) THEN seq + 1 ELSE seq
          /\ IF IsSome(resp)
             THEN ChannelSend(frame, reply, Text(Unwrap(resp)), "run")
             ELSE /\ last' = Iteration(frame, reply, <<>>)
                  /\ UNCHANGED <<rxPc, queue, enqueued>>
    /\ UNCHANGED <<mainPc, txPc, written>>
    /\ UNCHANGED controllerVars

\* OwnedMessage::Binary and everything else (260-263): print only.
RecvOther(frame) ==
    /\ RecvEnabled
    /\ received' = received + 1
    /\ last' = Iteration(frame, None, <<>>)
    /\ UNCHANGED <<mainPc, rxPc, txPc, queue, enqueued, written, seq>>
    /\ UNCHANGED controllerVars

(* ----------------------------- send loop -------------------------------- *)

\* thread::sleep(1 s) before the first recv (271).
SendLoopWake ==
    /\ ProcessAlive
    /\ txPc = "sleep"
    /\ txPc' = "run"
    /\ UNCHANGED <<mainPc, rxPc, queue, enqueued, written, seq, received, last>>
    /\ UNCHANGED controllerVars

\* One iteration whose send_message succeeds (274-290): a Close ends the loop.
SendLoopWrite ==
    /\ ProcessAlive
    /\ txPc = "run"
    /\ queue # <<>>
    /\ LET message == ChannelRecv(queue) IN
       /\ written' = Append(written, message)
       /\ txPc' = IF message.kind = "Close" THEN "done" ELSE "run"
    /\ queue' = Tail(queue)
    /\ UNCHANGED <<mainPc, rxPc, enqueued, seq, received, last>>
    /\ UNCHANGED controllerVars

\* One iteration whose send_message fails (291-296): write a plain Close
\* straight to the transport and return; panic if that write fails too.
SendLoopWriteError(closeOk) ==
    /\ ProcessAlive
    /\ txPc = "run"
    /\ queue # <<>>
    /\ queue' = Tail(queue)
    /\ IF closeOk
       THEN /\ written' = Append(written, PlainClose)
            /\ txPc' = "done"
       ELSE /\ txPc' = "panicked"
            /\ UNCHANGED written
    /\ UNCHANGED <<mainPc, rxPc, enqueued, seq, received, last>>
    /\ UNCHANGED controllerVars

Next ==
    \/ SendJoin
    \/ Stop
    \/ MainExit
    \/ RecvError
    \/ \E frame \in InboundCloses : RecvClose(frame)
    \/ RecvPing(Ping("p"))
    \/ \E json \in InboundTexts : RecvText(Text(json))
    \/ \E frame \in {Binary("b"), Pong("q")} : RecvOther(frame)
    \/ SendLoopWake
    \/ SendLoopWrite
    \/ \E closeOk \in BOOLEAN : SendLoopWriteError(closeOk)

Spec == Init /\ [][Next]_vars

(* ============== the operations of a Controller, one by one ============== *)

\* A controller as a caller built it, before any operation on it.
ControllerInit ==
    /\ mainPc = "join"
    /\ rxPc = "run"
    /\ txPc = "sleep"
    /\ queue = <<>>
    /\ enqueued = <<>>
    /\ written = <<>>
    /\ seq = 1
    /\ received = 0
    /\ last = [frame |-> NoFrame, reply |-> None, sent |-> <<>>, joined |-> FALSE]
    /\ controller \in Controllers
    /\ checked = None
    /\ serialized = None

\* controller.check() (116-184)
ControllerCheck ==
    /\ checked = None
    /\ checked' = Some(Check(controller))
    /\ UNCHANGED <<controller, serialized>>
    /\ UNCHANGED sessionVars

\* serde_json::to_string(&controller) (227)
ControllerSerialize ==
    /\ serialized = None
    /\ serialized' = Some(ToJson(controller))
    /\ UNCHANGED <<controller, checked>>
    /\ UNCHANGED sessionVars

ControllerNext ==
    \/ ControllerCheck
    \/ ControllerSerialize

ControllerSpec == ControllerInit /\ [][ControllerNext]_vars

(* ======================= properties of the session ====================== *)

IsPrefix(a, b) == Len(a) <= Len(b) /\ \A i \in 1..Len(a) : a[i] = b[i]

\* The message the latest inbound frame decoded to, if it was a text that parses.
LastMessage ==
    IF last.frame.kind = "Text" THEN ParseFromJsonStr(last.frame.json) ELSE None

LastIs(variant) == IsSome(LastMessage) /\ Unwrap(LastMessage).variant = variant

JoinEnqueued ==
    \E i \in 1..Len(enqueued) :
        enqueued[i].kind = "Text" /\ enqueued[i].json.type = "Join"

CloseEmitted ==
    \/ \E i \in 1..Len(enqueued) : enqueued[i].kind = "Close"
    \/ \E i \in 1..Len(written) : written[i].kind = "Close"

ControllersRequested ==
    \E i \in 1..Len(enqueued) :
        enqueued[i].kind = "Text" /\ enqueued[i].json.type = "RequestControllersList"

\* The program keeps no session-state value; the state of the specification's
\* session is read off the threads and the channel history.
SessionState ==
    IF rxPc = "closed" THEN "Closed"
    ELSE IF CloseEmitted \/ rxPc = "failed" THEN "Closing"
    ELSE IF ControllersRequested THEN "Active"
    ELSE IF JoinEnqueued THEN "Joining"
    ELSE "Disconnected"

\* The latest iteration enqueued exactly one text, of this wire type.
SentOne(type) ==
    /\ Len(last.sent) = 1
    /\ last.sent[1].kind = "Text"
    /\ last.sent[1].json.type = type

\* A write to the transport has failed: the send loop then writes a plain
\* Close itself, or panics.
WriteFailed == txPc = "panicked" \/ \E i \in 1..Len(written) : written[i] = PlainClose

(* C1: whenever the session, having sent its Join, receives a JoinResponse
   with result >= 100, exactly one message is enqueued in reaction, a
   RequestControllersList without a controller id, and the session is Active
   (the inbound loop goes on serving the connection). Stated for the runs in
   which every write to the transport succeeds. *)
C1_JoinAcceptedRequestsControllers ==
    (/\ ~WriteFailed
     /\ last.joined /\ LastIs("JoinResponse") /\ Unwrap(LastMessage).result >= 100)
        => /\ SentOne("RequestControllersList")
           /\ "controllerId" \notin DOMAIN last.sent[1].json
           /\ rxPc = "run"

\* What C1 does get from the code: the reply process_message decides, and its
\* enqueueing whenever the receive loop survived the send.
C1_ReplyWhileChannelOpen ==
    (LastIs("JoinResponse") /\ Unwrap(LastMessage).result >= 100)
        => /\ last.reply = Some(RequestControllersList(None, last.reply[1].sequence))
           /\ rxPc # "panicked"
                => SentOne("RequestControllersList")
                   /\ "controllerId" \notin DOMAIN last.sent[1].json

(* C2: whenever the session (its Join sent) receives a JoinResponse with
   result < 100, no message is enqueued in reaction and the session moves to
   Closing: the connection is torn down. *)
C2_JoinRejectedTearsDown ==
    (last.joined /\ LastIs("JoinResponse") /\ Unwrap(LastMessage).result < 100)
        => /\ last.sent = <<>>
           /\ SessionState \in {"Closing", "Closed"}

\* Either direction has observed a close.
CloseObserved ==
    \/ rxPc = "closed"
    \/ \E i \in 1..Len(written) : written[i].kind = "Close"

(* C3: once either direction has observed a close, the inbound loop processes
   no further text message and the outbound loop writes no further text
   message. *)
C3_NothingAfterClose ==
    [][CloseObserved =>
        /\ ~(received' = received + 1 /\ last'.frame.kind = "Text")
        /\ ~(Len(written') = Len(written) + 1
             /\ written'[Len(written')].kind = "Text")]_vars

(* C4: no inbound event and no interleaving with the stop signal makes a
   thread panic: in particular neither the receive loop (reply, pong, close)
   nor main (close) fails to enqueue because the send loop has ended. Stated
   for the runs in which every write to the transport succeeds. *)
C4_NoThreadPanics ==
    ~WriteFailed => rxPc # "panicked" /\ mainPc # "panicked"

(* C5 as stated: what the outbound loop has written is always a prefix of
   what was put on the queue. *)
C5_WrittenIsQueuePrefix == IsPrefix(written, enqueued)

(* C5, amended: what the outbound loop has written is a prefix of what was put
   on the queue, followed at most by one plain Close that the loop writes
   straight to the transport after a failed write, as its last act. *)
C5_WrittenIsQueuePrefixThenPlainClose ==
    LET n == Len(written)
        fromQueue == IF n > 0 /\ written[n] = PlainClose
                     THEN SubSeq(written, 1, n - 1) ELSE written
    IN /\ IsPrefix(fromQueue, enqueued)
       /\ \A i \in 1..n : written[i] = PlainClose => i = n /\ txPc = "done"

\* Several queued messages were written in order, then the direct Close.
C5_Witness ==
    /\ Len(written) >= 3
    /\ written[Len(written)] = PlainClose
    /\ written[1].kind = "Text" /\ written[2].kind \in {"Text", "Pong"}

StopOccurred == mainPc \in {"stopped", "exited", "panicked"}
IndexIn(sq, x) == CHOOSE i \in 1..Len(sq) : sq[i] = x

(* C6: after the stop signal a Close is on the outbound queue and the session
   is Closing; when the outbound loop has ended, that Close was written, after
   every message enqueued before it; and an inbound Close ends the inbound
   loop at once. The first two parts are stated for the runs in which every
   write to the transport succeeds. *)
C6_StopCloseWrittenPeerCloseHonoured ==
    /\ (StopOccurred /\ ~WriteFailed) =>
          /\ \E i \in 1..Len(enqueued) : enqueued[i] = TerminationClose
          /\ SessionState \in {"Closing", "Closed"}
    /\ (StopOccurred /\ txPc = "done" /\ ~WriteFailed) =>
          /\ \E i \in 1..Len(written) : written[i] = TerminationClose
          /\ SubSeq(written, 1, IndexIn(written, TerminationClose))
               = SubSeq(enqueued, 1, IndexIn(enqueued, TerminationClose))
    /\ last.frame.kind = "Close" => rxPc = "closed"

\* The part of C6 the code does keep: an inbound Close ends the inbound loop.
C6_PeerCloseHonoured == last.frame.kind = "Close" => rxPc = "closed"

(* C7: an inbound text that does not parse is only reported: nothing is
   enqueued or written, no thread changes its position (the connection stays
   open, the inbound loop keeps running) and no sequence number is used, so
   every later message finds the session as it was. *)
C7_MalformedTextIsIgnored ==
    [][(/\ received' = received + 1
        /\ last'.frame.kind = "Text"
        /\ ~IsSome(ParseFromJsonStr(last'.frame.json)))
       => /\ UNCHANGED <<mainPc, rxPc, txPc, queue, enqueued, written, seq>>
          /\ rxPc' = "run"
          /\ last'.sent = <<>>]_vars

\* A malformed text was taken while the connection was up and a reply to an
\* earlier message was still queued.
C7_Witness ==
    /\ last.frame.kind = "Text"
    /\ last.frame.json \in MalformedTexts
    /\ received = 2
    /\ rxPc = "run"
    /\ Len(enqueued) >= 2

\* The OperatorInfo the claim expects for a login, as a wire object.
ExpectedOperatorInfo(json, login) ==
    /\ json.type = "OperatorInfo"
    /\ json.controllerId = login.controller_id
    /\ IF login.password \in DOMAIN Users
       THEN /\ json.level = Users[login.password][1]
            /\ json.name = Users[login.password][2]
            /\ "operatorId" \in DOMAIN json
            /\ json.level = 0 => json.operatorId = 1
       ELSE /\ json.level = 0
            /\ json.name = "Not Allowed"
            /\ "operatorId" \notin DOMAIN json

(* C8: for every inbound LoginOperator exactly one OperatorInfo for the same
   controller is enqueued, never an error or a teardown: on a directory hit
   with that entry's level and name and a present operator id (1 for level
   0), on a miss with level 0, no operator id and the name "Not Allowed".
   Stated for the runs in which every write to the transport succeeds. *)
C8_LoginAlwaysAnswered ==
    (~WriteFailed /\ last.joined /\ LastIs("LoginOperator"))
        => /\ SentOne("OperatorInfo")
           /\ ExpectedOperatorInfo(last.sent[1].json, Unwrap(LastMessage))
           /\ rxPc = "run"

\* What C8 does get from the code: the reply as described, enqueued whenever
\* the receive loop survived the send.
C8_ReplyWhileChannelOpen ==
    LastIs("LoginOperator")
        => /\ IsSome(last.reply)
           /\ ExpectedOperatorInfo(Unwrap(ToJsonStr(Unwrap(last.reply))),
                                   Unwrap(LastMessage))
           /\ rxPc # "panicked" => last.sent = <<Text(Unwrap(ToJsonStr(Unwrap(last.reply))))>>

(* C9: for every inbound Alive after the Join was sent, in any session state,
   exactly one Alive is enqueued in reaction, carrying the sequence number
   this side assigned to it, not the inbound one. Stated for the runs in which
   every write to the transport succeeds. *)
C9_AliveAlwaysEchoed ==
    (~WriteFailed /\ last.joined /\ LastIs("Alive"))
        => /\ SentOne("Alive")
           /\ last.sent[1].json.sequence = seq - 1
           /\ last.sent[1].json # last.frame.json

\* What C9 does get from the code.
C9_ReplyWhileChannelOpen ==
    (last.joined /\ LastIs("Alive"))
        => /\ last.reply = Some(NewAlive(seq - 1))
           /\ rxPc # "panicked"
                => SentOne("Alive") /\ last.sent[1].json.sequence = seq - 1

\* The job directory as the claim reads it: the set of ids, and the card of an id.
JobIds == {Jobs[i].job_card_id : i \in 1..Len(Jobs)}
JobWithId(id) == Jobs[CHOOSE i \in 1..Len(Jobs) : Jobs[i].job_card_id = id]

ExpectedJobCardsList(json, request) ==
    /\ json.type = "JobCardsList"
    /\ json.controllerId = request.controller_id
    /\ DOMAIN json.data = JobIds
    /\ \A id \in JobIds :
          /\ json.data[id].jobCardId = id
          /\ json.data[id].moldId = JobWithId(id).mold_id
          /\ json.data[id].progress = JobWithId(id).progress
          /\ json.data[id].total = JobWithId(id).total

(* C10: for every inbound RequestJobCardsList exactly one JobCardsList for the
   same controller is enqueued, keyed by exactly the job-card ids of the
   directory, every key mapping to the directory's card with that id. Stated
   for the runs in which every write to the transport succeeds. *)
C10_JobCardsAlwaysListed ==
    (~WriteFailed /\ last.joined /\ LastIs("RequestJobCardsList"))
        => /\ SentOne("JobCardsList")
           /\ ExpectedJobCardsList(last.sent[1].json, Unwrap(LastMessage))

\* What C10 does get from the code.
C10_ReplyWhileChannelOpen ==
    LastIs("RequestJobCardsList")
        => /\ IsSome(last.reply)
           /\ ExpectedJobCardsList(Unwrap(ToJsonStr(Unwrap(last.reply))),
                                   Unwrap(LastMessage))
           /\ rxPc # "panicked" => last.sent = <<Text(Unwrap(ToJsonStr(Unwrap(last.reply))))>>

(* ===================== properties of Controller::check =================== *)

\* The number a decimal numeral stands for, digit by position.
RECURSIVE Power10(_)
Power10(k) == IF k = 0 THEN 1 ELSE 10 * Power10(k - 1)

RECURSIVE SumOver(_, _)
SumOver(f, n) == IF n = 0 THEN 0 ELSE f[n] + SumOver(f, n - 1)

DecimalValue(t) ==
    SumOver([i \in 1..Len(t) |-> ToDigit(t[i]) * Power10(Len(t) - i)], Len(t))

IsNumeral(t) == t # <<>> /\ \A i \in 1..Len(t) : t[i] \in AsciiDigit

\* The positions of the dots and colons of an address, in order.
Separators(s) ==
    SelectSeq([i \in 1..Len(s) |-> i], LAMBDA i : s[i] \in {".", ":"})

\* The k-th of the parts the separators cut the address into.
Part(s, k) ==
    LET sep == Separators(s)
    IN  SubSeq(s, IF k = 1 THEN 1 ELSE sep[k - 1] + 1,
                  IF k > Len(sep) THEN Len(s) ELSE sep[k] - 1)

\* Four parts divided by dots, then a colon and a fifth part.
DottedQuadAndPort(s) ==
    LET sep == Separators(s)
    IN  /\ Len(sep) = 4
        /\ \A k \in 1..3 : s[sep[k]] = "."
        /\ s[sep[4]] = ":"

\* d{1,3}.d{1,3}.d{1,3}.d{1,3}:d{1,5}
HasIpPortShape(s) ==
    /\ DottedQuadAndPort(s)
    /\ \A k \in 1..5 :
        /\ Len(Part(s, k)) \in 1..(IF k = 5 THEN 5 ELSE 3)
        /\ \A i \in 1..Len(Part(s, k)) : Part(s, k)[i] \in RegexDigit

\* ... with every octet in 0..255 and the port in 1..65535.
IsIpPort(s) ==
    /\ HasIpPortShape(s)
    /\ \A k \in 1..4 :
        IsNumeral(Part(s, k)) /\ DecimalValue(Part(s, k)) \in 0..255
    /\ IsNumeral(Part(s, 5)) /\ DecimalValue(Part(s, 5)) \in 1..65535

\* tty followed by one or more word characters.
IsTty(s) ==
    /\ Len(s) >= 4
    /\ SubSeq(s, 1, 3) = <<"t", "t", "y">>
    /\ \A i \in 4..Len(s) : s[i] \in RegexWord

\* COM followed by one or more digits.
IsCom(s) ==
    /\ Len(s) >= 4
    /\ SubSeq(s, 1, 3) = <<"C", "O", "M">>
    /\ \A i \in 4..Len(s) : s[i] \in RegexDigit

\* check() has been called on a controller that is valid but for its address.
AddressChecked ==
    /\ IsSome(checked)
    /\ controller = [Default EXCEPT !.address = controller.address]

Accepted == checked = Some(Ok)

AddressIs(a) == controller.address = a

\* C11: check accepts an address exactly when it is an ip:port with octets
\* in 0..255 and a port in 1..65535, or tty and word characters, or COM and
\* digits; an address of the ip:port shape with a bad octet or port is
\* refused as an ip address or port, not tried as a serial name; and
\* "1.02.003.004:05", "COM123", "ttyABC" are accepted while "1.2.3.4",
\* "1.2.3.4:0", "COM" and "" are refused.
C11_AddressGrammar ==
    AddressChecked =>
        /\ Accepted <=> \/ IsIpPort(controller.address)
                        \/ IsTty(controller.address)
                        \/ IsCom(controller.address)
        /\ HasIpPortShape(controller.address) /\ ~IsIpPort(controller.address)
            => /\ IsErr(Unwrap(checked))
               /\ Unwrap(Unwrap(checked)).field \in {"ip[address]", "ip[port]"}
        /\ \/ AddressIs(IpText(<<"1">>, <<"0", "2">>, <<"0", "0", "3">>,
                               <<"0", "0", "4">>, <<"0", "5">>))
           \/ AddressIs(<<"C", "O", "M", "1", "2", "3">>)
           \/ AddressIs(<<"t", "t", "y", "A", "B", "C">>)
           => Accepted
        /\ \/ AddressIs(<<"1", ".", "2", ".", "3", ".", "4">>)
           \/ AddressIs(IpText(<<"1">>, <<"2">>, <<"3">>, <<"4">>, <<"0">>))
           \/ AddressIs(<<"C", "O", "M">>)
           \/ AddressIs(<<>>)
           => ~Accepted

\* check() has accepted 1.02.003.004:05.
C11_Witness ==
    /\ AddressChecked
    /\ Accepted
    /\ AddressIs(IpText(<<"1">>, <<"0", "2">>, <<"0", "0", "3">>,
                        <<"0", "0", "4">>, <<"0", "5">>))

(* ================= properties of the JSON of a Controller ================ *)

Keys(entries) == {entries[i][1] : i \in 1..Len(entries)}

IsNull(value) == value[1] = "null"

\* Some key of the object, or of an object inside it, has the value null.
HasNull(entries) ==
    \E i \in 1..Len(entries) :
        \/ IsNull(entries[i][2])
        \/ /\ entries[i][2][1] = "object"
           /\ \E j \in 1..Len(entries[i][2][2]) : IsNull(entries[i][2][2][j][2])

AllFiniteIn(map) == \A i \in 1..Len(map) : map[i][2][1] = "finite"

\* Every number the controller carries is finite.
AllFinite(c) ==
    /\ IsSome(c.geo_location) =>
        /\ Unwrap(c.geo_location).geo_latitude[1] = "finite"
        /\ Unwrap(c.geo_location).geo_longitude[1] = "finite"
    /\ IsSome(c.last_cycle_data) => AllFiniteIn(Unwrap(c.last_cycle_data))
    /\ IsSome(c.variables) => AllFiniteIn(Unwrap(c.variables))

\* The keys of the fields of the controller that are absent.
AbsentKeys(c) ==
    (IF IsSome(c.display_name) THEN {} ELSE {"displayName"})
    \cup (IF IsSome(c.geo_location) THEN {}
          ELSE {"geoLatitude", "geoLongitude"})
    \cup (IF IsSome(c.last_cycle_data) THEN {} ELSE {"lastCycleData"})
    \cup (IF IsSome(c.variables) THEN {} ELSE {"variables"})
    \cup (IF IsSome(c.last_connection_time) THEN {}
          ELSE {"lastConnectionTime"})
    \cup (IF IsSome(c.operator) THEN {} ELSE {"operatorId"})
    \cup (IF IsSome(c.operator) /\ IsSome(Unwrap(c.operator).operator_name)
          THEN {} ELSE {"operatorName"})
    \cup (IF IsSome(c.job_card_id) THEN {} ELSE {"jobCardId"})
    \cup (IF IsSome(c.mold_id) THEN {} ELSE {"moldId"})

\* C12: the JSON written for a controller has no key for a field that is
\* absent (display name, geo-location, last-cycle data, variables, last
\* connection time, operator id and name, job-card id, mold id) and no key
\* with the value null, the name of an operator without a name included.
\* Stated for the controllers whose numbers are all finite.
C12_AbsentFieldsOmitted ==
    IsSome(serialized) /\ AllFinite(controller) =>
        /\ Keys(Unwrap(serialized)) \cap AbsentKeys(controller) = {}
        /\ ~HasNull(Unwrap(serialized))

\* What holds instead: only the name of an operator without a name is
\* written for an absent field, and it is the only null.
C12_OnlyOperatorNameIsNull ==
    IsSome(serialized) /\ AllFinite(controller) =>
        LET json == Unwrap(serialized)
        IN  /\ Keys(json) \cap AbsentKeys(controller) \subseteq {"operatorName"}
            /\ \A i \in 1..Len(json) :
                json[i][2][1] = "object" => ~HasNull(json[i][2][2])
            /\ \A i \in 1..Len(json) :
                IsNull(json[i][2]) =>
                    /\ json[i][1] = "operatorName"
                    /\ IsSome(controller.operator)
                    /\ ~IsSome(Unwrap(controller.operator).operator_name)

(* ================== properties of the session, continued ================= *)

\* The variants process_message has a branch for (71-120).
AnsweredVariants ==
    {"Alive", "JoinResponse", "LoginOperator", "RequestJobCardsList"}

\* The frame is a text that parses to a message process_message has no
\* branch for.
OtherRecognized(frame) ==
    /\ frame.kind = "Text"
    /\ IsSome(ParseFromJsonStr(frame.json))
    /\ Unwrap(ParseFromJsonStr(frame.json)).variant \notin AnsweredVariants

\* C13: taking one inbound message puts at most one message on the channel;
\* a recognized message other than Alive, JoinResponse, LoginOperator and
\* RequestJobCardsList puts none and changes nothing of the session: no
\* thread position, queue, history, sequence counter or session state.
C13_AtMostOneReply ==
    [][received' = received + 1
       => /\ \/ enqueued' = enqueued
             \/ \E msg \in {last'.sent[i] : i \in 1..Len(last'.sent)} :
                    enqueued' = Append(enqueued, msg)
          /\ Len(last'.sent) <= 1
          /\ Len(queue') <= Len(queue) + 1
          /\ OtherRecognized(last'.frame)
                => /\ UNCHANGED <<mainPc, rxPc, txPc, queue, enqueued,
                                  written, seq>>
                   /\ last'.sent = <<>>
                   /\ SessionState' = SessionState]_vars

\* A ControllerAction was taken while the session was active and a reply to
\* an earlier message was still queued.
C13_Witness ==
    /\ OtherRecognized(last.frame)
    /\ received = 2
    /\ rxPc = "run"
    /\ last.joined
    /\ Len(queue) >= 1
    /\ last.sent = <<>>

IsJoinText(msg) == msg.kind = "Text" /\ msg.json.type = "Join"

\* A text process_message produced from an inbound message.
IsReplyText(msg) ==
    /\ msg.kind = "Text"
    /\ msg.json.type \in
        {"Alive", "OperatorInfo", "JobCardsList", "RequestControllersList"}

\* No reply stands before the Join in the history.
JoinAheadOfReplies(history) ==
    \A j \in 1..Len(history) :
        IsJoinText(history[j])
            => \A i \in 1..(j - 1) : ~IsReplyText(history[i])

\* C14: the Join is the first application message put on the channel and
\* written to the transport: no reply made from an inbound message (Alive
\* echo, OperatorInfo, JobCardsList, RequestControllersList) is enqueued or
\* written ahead of it, however the main thread and the receive loop
\* interleave.
C14_JoinIsFirst ==
    /\ JoinAheadOfReplies(enqueued)
    /\ JoinAheadOfReplies(written)

(* ============ properties of the error Controller::check returns ========== *)

NotFinite(x) == x[1] # "finite"

\* The checks in the order controller_type, version, model, job_card_id,
\* mold_id, geo-location, address: whether the field fails, and the names
\* an error about it may carry.
FieldChecks(c) ==
    << <<c.controller_type = <<>>, {"controller_type"}>>,
       <<c.version = <<>>, {"version"}>>,
       <<c.model = <<>>, {"model"}>>,
       <<c.job_card_id = Some(<<>>), {"job_card_id"}>>,
       <<c.mold_id = Some(<<>>), {"mold_id"}>>,
       <<IsSome(c.geo_location) /\
            (\/ NotFinite(Unwrap(c.geo_location).geo_latitude)
             \/ NotFinite(Unwrap(c.geo_location).geo_longitude)),
         {"geo_latitude", "geo_longitude"}>>,
       <<c.address = <<>>, {"address"}>> >>

\* The same with the name the code gives an empty model.
FieldChecksAsCoded(c) ==
    [FieldChecks(c) EXCEPT ![3] = <<c.model = <<>>, {"version"}>>]

\* The result is the error of the first failing check, if any check fails.
FirstFailingIsReported(checks, r) ==
    \A k \in 1..Len(checks) :
        checks[k][1] /\ (\A h \in 1..(k - 1) : ~checks[h][1])
            => IsErr(r) /\ Unwrap(r).field \in checks[k][2]

\* C15: when check fails on an empty controller_type, version, model or
\* address, the InvalidField error names that field (an empty model is
\* reported as model), and the error returned is that of the first failing
\* field in the order controller_type, version, model, job_card_id, mold_id,
\* geo-location, address.
C15_ErrorNamesFirstFailingField ==
    IsSome(checked) =>
        FirstFailingIsReported(FieldChecks(controller), Unwrap(checked))

\* What holds instead: the order is as claimed, and an empty model is
\* reported under the name version.
C15_ErrorOfFirstFailingFieldAsCoded ==
    IsSome(checked) =>
        FirstFailingIsReported(FieldChecksAsCoded(controller), Unwrap(checked))

====
